---- MODULE Spec2Model ----
(***************************************************************************)
(* Two workflow pipelines of the repository, as state machines.            *)
(*                                                                         *)
(*  - stock_ticker_analysis_agent: a supervisor node that routes between   *)
(*    three worker nodes, with trial bookkeeping kept in the UI session    *)
(*    state by the with_status decorator (specification SpecStock).        *)
(*  - newsletter_agent: a fixed graph with a five-way fan-out of writing   *)
(*    steps joined by the aggregate step (specification SpecNews).         *)
(***************************************************************************)
EXTENDS Integers, Sequences, FiniteSets, TLC

(***************************************************************************)
(* Bounds of the model.                                                    *)
(***************************************************************************)
\* Supersteps the executor runs before it gives up on a run (the graph is
\* compiled with the library's default recursion limit; the model uses a
\* smaller one).
RecursionLimit == 10

(***************************************************************************)
(* Sequences.                                                              *)
(***************************************************************************)
Range(seq) == {seq[i] : i \in 1..Len(seq)}

IsPrefix(a, b) == Len(a) <= Len(b) /\ \A i \in 1..Len(a) : a[i] = b[i]

(***************************************************************************)
(* Stock pipeline: constants of state.py and agent.py.                     *)
(***************************************************************************)
MEMBERS == <<"Researcher", "Stock_Analyzer", "Chart_Generator">>

FINISH == "FINISH"

max_trials == 1

MemberSet == {MEMBERS[i] : i \in 1..Len(MEMBERS)}

\* RouteResponse.next: Literal["FINISH", *MEMBERS]
RouteValues == {FINISH} \cup MemberSet

\* agent_name.replace("_", " ")
DisplayName(a) ==
  CASE a = "Researcher"      -> "Researcher"
    [] a = "Stock_Analyzer"  -> "Stock Analyzer"
    [] a = "Chart_Generator" -> "Chart Generator"
    [] OTHER                 -> a

DisplayNames == {DisplayName(m) : m \in MemberSet}

\* current_agent.replace(" ", "_")
MemberName(d) ==
  CASE d = "Researcher"      -> "Researcher"
    [] d = "Stock Analyzer"  -> "Stock_Analyzer"
    [] d = "Chart Generator" -> "Chart_Generator"
    [] OTHER                 -> d

\* MEMBERS.index(a); 0 stands for ValueError (a is not a member)
MemberIndex(a) ==
  IF a \in MemberSet THEN CHOOSE i \in 1..Len(MEMBERS) : MEMBERS[i] = a ELSE 0

\* agent_trials.get(display_name, 0)
TrialsGet(trials, d) == IF d \in DOMAIN trials THEN trials[d] ELSE 0

\* TrialCeiling with the counters ignored: the LLM decision is kept.
ceiling_ignored(keys, trials, next_agent) == next_agent

\* "Check if the next agent has exceeded max trials"
TrialCeiling(keys, trials, next_agent) ==
  IF "agent_trials" \in keys /\ next_agent # FINISH
    THEN LET display_name   == DisplayName(next_agent)
             current_trials == TrialsGet(trials, display_name)
             current_idx    == MemberIndex(next_agent)
         IN  IF current_trials >= max_trials
               THEN IF current_idx = 0 THEN FINISH
                    ELSE IF current_idx < Len(MEMBERS)
                      THEN MEMBERS[current_idx + 1]
                      ELSE FINISH
               ELSE next_agent
    ELSE next_agent

\* FinishOverride with the check left out: FINISH is returned as it comes.
finish_without_override(cur, next_agent) == next_agent

\* "If next_agent is FINISH, check if we've gone through all members"
FinishOverride(cur, next_agent) ==
  IF next_agent = FINISH
    THEN LET current_idx == MemberIndex(MemberName(cur))
         IN  IF current_idx = 0 THEN MEMBERS[1]
             ELSE IF current_idx < Len(MEMBERS)
               THEN MEMBERS[current_idx + 1]
               ELSE FINISH
    ELSE next_agent

\* supervisor_route without the branch for the first call of a run.
route_without_first_call(keys, cur, trials, response_next) ==
  FinishOverride(cur, TrialCeiling(keys, trials, response_next))

\* The route supervisor_agent returns for the LLM decision `response_next`.
supervisor_route(keys, cur, trials, response_next) ==
  IF response_next = "supervisor" \/ "current_agent" \notin keys
       \/ cur = "supervisor"
    THEN MEMBERS[1]
    ELSE FinishOverride(cur, TrialCeiling(keys, trials, response_next))

(***************************************************************************)
(* Newsletter pipeline: the graph of graph.py.                             *)
(***************************************************************************)
\* graph.py: for i in range(5)
NumSections == 5

\* node.py: newsletter_theme.sub_themes[:5]
MaxSubThemes == 5

\* tool.py: "max_results": 3 of search_news_for_subtheme
max_results == 3

\* tool.py: max_results=5 of search_recent_news
max_titles == 5

START == "__start__"

END == "__end__"

WriteNodes == <<"write_section_0", "write_section_1", "write_section_2",
                "write_section_3", "write_section_4">>

\* f"write_section_{i}", i in 0..4
write_node(i) == WriteNodes[i + 1]

SectionIds == 0..(NumSections - 1)

Nodes == {"search_news", "generate_themes", "search_sub_theme_articles",
          "aggregate", "edit_newsletter"} \cup {write_node(i) : i \in SectionIds}

\* Edges with aggregate wired to the fan-out's source as well.
EdgesNoJoin ==
  {<<START, "search_news">>,
   <<"search_news", "generate_themes">>,
   <<"generate_themes", "search_sub_theme_articles">>,
   <<"search_sub_theme_articles", "aggregate">>,
   <<"aggregate", "edit_newsletter">>,
   <<"edit_newsletter", END>>}
  \cup {<<"search_sub_theme_articles", write_node(i)>> : i \in SectionIds}
  \cup {<<write_node(i), "aggregate">> : i \in SectionIds}

\* graph.py: the add_edge calls
Edges ==
  {<<START, "search_news">>,
   <<"search_news", "generate_themes">>,
   <<"generate_themes", "search_sub_theme_articles">>,
   <<"aggregate", "edit_newsletter">>,
   <<"edit_newsletter", END>>}
  \cup {<<"search_sub_theme_articles", write_node(i)>> : i \in SectionIds}
  \cup {<<write_node(i), "aggregate">> : i \in SectionIds}

\* The nodes triggered by the nodes of S (the next superstep of the executor).
Successors(S) == {e[2] : e \in {x \in Edges : x[1] \in S}} \ {END}

\* The order in which the executor applies the updates of one superstep
\* (by node name).
NodeOrder == <<"aggregate", "edit_newsletter", "generate_themes",
               "search_news", "search_sub_theme_articles",
               "write_section_0", "write_section_1", "write_section_2",
               "write_section_3", "write_section_4">>

(***************************************************************************)
(* Newsletter pipeline: dicts.  A dict[str, str] is a sequence of entries  *)
(* [k, v] with distinct keys, in insertion order.                          *)
(***************************************************************************)
DictKeys(d) == {d[i].k : i \in 1..Len(d)}

\* d[key] = val
DictSet(d, key, val) ==
  IF key \in DictKeys(d)
    THEN [i \in 1..Len(d) |-> IF d[i].k = key THEN [k |-> key, v |-> val]
                                               ELSE d[i]]
    ELSE Append(d, [k |-> key, v |-> val])

RECURSIVE DictUpdate(_, _)
\* left.update(right), also {**left, **right}
DictUpdate(left, right) ==
  IF right = <<>> THEN left
  ELSE DictUpdate(DictSet(left, Head(right).k, Head(right).v), Tail(right))

\* d[key]
DictGet(d, key) == d[CHOOSE i \in 1..Len(d) : d[i].k = key].v

\* The mapping a dict stands for, whatever the order of its entries.
AsMapping(d) == [key \in DictKeys(d) |-> DictGet(d, key)]

\* merge_dicts with the sides exchanged: {**right, **left}
merge_left_biased(left, right) == DictUpdate(right, left)

\* state.py: merge_dicts, the reducer of State.results
merge_dicts(left, right) == DictUpdate(left, right)

(***************************************************************************)
(* Newsletter pipeline: the node functions.  A node returns                *)
(* [error |-> "none", update |-> [field, value]] or raises                 *)
(* [error |-> kind].                                                       *)
(***************************************************************************)
Returns(field, value) ==
  [error |-> "none", update |-> [field |-> field, value |-> value]]

Raises(kind) == [error |-> kind, update |-> [field |-> "", value |-> 0]]

Min(a, b) == IF a < b THEN a ELSE b

\* sub_themes[-5:]
TruncateLast(sub_themes) ==
  SubSeq(sub_themes, Len(sub_themes) - Min(Len(sub_themes), MaxSubThemes) + 1,
         Len(sub_themes))

\* sub_themes[:5]
Truncate(sub_themes) == SubSeq(sub_themes, 1, Min(Len(sub_themes), MaxSubThemes))

\* node.py: search_keyword_news; `n` titles come back unless the search raises
search_keyword_news(st, ok, n) ==
  IF "keyword" \notin st.present THEN Raises("key_error")
  ELSE IF ~ok THEN Raises("upstream")
  ELSE Returns("article_titles", n)

\* node.py: generate_themes; `gen` is the list of sub-themes the LLM returns
generate_themes(st, ok, gen) ==
  IF {"article_titles", "language"} \subseteq st.present
    THEN IF ~ok THEN Raises("upstream")
         ELSE Returns("newsletter_theme",
                      [theme |-> "theme", sub_themes |-> Truncate(gen)])
    ELSE Raises("key_error")

\* tool.py: the article_info list built from a search response with
\* `results` results and `images` images; a title or text is named by the
\* position of its result, an image by its position, 0 is the empty string
article_info(outcome) ==
  [j \in 1..outcome.results |->
     [title       |-> j,
      image_url   |-> IF j <= outcome.images THEN j ELSE 0,
      raw_content |-> j]]

\* search_news_for_subtheme without its except branch: the exception leaves
\* the function and nothing is returned
search_without_except(subtheme, outcome) ==
  IF outcome.raises
    THEN <<>>
    ELSE <<[k |-> subtheme, v |-> article_info(outcome)]>>

\* tool.py: search_news_for_subtheme; the result is a dict with one entry
search_news_for_subtheme(subtheme, outcome) ==
  IF outcome.raises
    THEN <<[k |-> subtheme, v |-> <<>>]>>
    ELSE <<[k |-> subtheme, v |-> article_info(outcome)]>>

\* asyncio.gather over the sub-themes, in list order
Gather(subthemes, outcomes) ==
  [i \in 1..Len(subthemes) |-> search_news_for_subtheme(subthemes[i], outcomes[i])]

RECURSIVE UpdateAll(_, _)
\* for result in results: sub_theme_articles.update(result)
UpdateAll(d, results) ==
  IF results = <<>> THEN d
  ELSE UpdateAll(DictUpdate(d, Head(results)), Tail(results))

\* bool(sub_theme_articles)
AnyEntries(d) == d # <<>>

\* any(sub_theme_articles.values())
AnyArticles(d) == \E i \in 1..Len(d) : d[i].v # <<>>

\* node.py: search_sub_theme_articles
search_sub_theme_articles(st, outcomes) ==
  IF "newsletter_theme" \notin st.present THEN Raises("key_error")
  ELSE LET results == Gather(st.newsletter_theme.sub_themes, outcomes)
           sub_theme_articles == UpdateAll(<<>>, results)
       IN  IF ~AnyArticles(sub_theme_articles)
             THEN Raises("no_articles")
             ELSE Returns("sub_theme_articles", sub_theme_articles)

\* graph.py: lambda s, i=i: node.write_section(s, s["newsletter_theme"]
\* .sub_themes[i]), and node.py: write_section_async.  The text the LLM
\* returns is identified by the writing step that asked for it.
write_section(st, i, ok) ==
  IF "newsletter_theme" \notin st.present THEN Raises("key_error")
  ELSE IF i + 1 > Len(st.newsletter_theme.sub_themes) THEN Raises("index_error")
  ELSE LET sub_theme == st.newsletter_theme.sub_themes[i + 1]
       IN  IF \/ "sub_theme_articles" \notin st.present
              \/ sub_theme \notin DictKeys(st.sub_theme_articles)
              \/ "language" \notin st.present
             THEN Raises("key_error")
           ELSE IF ~ok THEN Raises("upstream")
           ELSE Returns("results", <<[k |-> sub_theme, v |-> i]>>)

RECURSIVE Sections(_)
\* for sub_theme, content in state["results"].items(): "## sub_theme\ncontent"
Sections(results) ==
  IF results = <<>> THEN <<>>
  ELSE <<[level |-> 2, title |-> Head(results).k, body |-> Head(results).v]>>
         \o Sections(Tail(results))

\* aggregate_results with the loop assigning the section instead of appending
\* it: only the last entry of results is kept.
aggregate_last_result(st) ==
  IF {"newsletter_theme", "results"} \subseteq st.present
    THEN Returns("messages",
                 <<[kind |-> "draft", theme |-> st.newsletter_theme.theme,
                    sections |-> Sections(SubSeq(st.results, Len(st.results),
                                                 Len(st.results)))]>>)
    ELSE Raises("key_error")

\* node.py: aggregate_results; the draft is the heading "# theme" followed by
\* the sections
aggregate_results(st) ==
  IF {"newsletter_theme", "results"} \subseteq st.present
    THEN Returns("messages",
                 <<[kind |-> "draft", theme |-> st.newsletter_theme.theme,
                    sections |-> Sections(st.results)]>>)
    ELSE Raises("key_error")

\* node.py: edit_newsletter; the edited text is a function of the prompt
edit_newsletter(st, ok) ==
  IF {"newsletter_theme", "language", "messages"} \subseteq st.present
    THEN IF st.messages = <<>> THEN Raises("index_error")
         ELSE IF ~ok THEN Raises("upstream")
         ELSE Returns("messages",
                      <<[kind |-> "final", theme |-> st.newsletter_theme.theme,
                         sections |-> st.messages[Len(st.messages)].sections]>>)
    ELSE Raises("key_error")

\* The executor merges one update into the state: results by merge_dicts,
\* messages by add_messages, every other field by replacement.
ApplyUpdate(st, upd) ==
  LET st2 == [st EXCEPT !.present = @ \cup {upd.field}]
  IN  CASE upd.field = "results" ->
             [st2 EXCEPT !.results = merge_dicts(@, upd.value)]
        [] upd.field = "messages" ->
             [st2 EXCEPT !.messages = @ \o upd.value]
        [] upd.field = "article_titles" ->
             [st2 EXCEPT !.article_titles = upd.value]
        [] upd.field = "newsletter_theme" ->
             [st2 EXCEPT !.newsletter_theme = upd.value]
        [] upd.field = "sub_theme_articles" ->
             [st2 EXCEPT !.sub_theme_articles = upd.value]
        [] OTHER -> st

RECURSIVE ApplyWrites(_, _, _)
\* The updates of a superstep, applied in NodeOrder from position i on.
ApplyWrites(st, writes, i) ==
  IF i > Len(NodeOrder) THEN st
  ELSE ApplyWrites(IF NodeOrder[i] \in DOMAIN writes
                     THEN ApplyUpdate(st, writes[NodeOrder[i]])
                     ELSE st,
                   writes, i + 1)

(***************************************************************************)
(* State.                                                                  *)
(***************************************************************************)
VARIABLES
  \* ---- stock pipeline ----
  s_status,       \* "idle" | "running" | "finished" | "failed"
  s_node,         \* the node the executor runs next: "supervisor" or a member
  s_next,         \* State.next, the field the conditional edge reads
  s_steps,        \* supersteps executed in this run
  s_error,        \* why the run failed: "none" | "upstream" | "recursion"
  session_keys,   \* keys present in st.session_state
  current_agent,  \* st.session_state.current_agent
  agent_trials,   \* st.session_state.agent_trials
  response,       \* the LLM's last route decision (response.next)
  visits,         \* workers executed in this run, in order
  onlyResearcher, \* every LLM decision of this run asked for Researcher
  s_run,          \* the number of the run in this browser session
  s_logs,         \* run_graph's logs: the keys of the outputs it received
  s_status_text,  \* what run_graph's status_text shows
  fresh,          \* the bookkeeping and route of a run that is given the same
                  \* LLM decisions in a browser session of its own
  \* ---- newsletter pipeline ----
  n_status,       \* "idle" | "running" | "finished" | "failed"
  n_error,        \* the failure that ended the run, "none" otherwise
  n_failed,       \* the node that raised, "<none>" otherwise
  n_active,       \* the nodes of the current superstep
  n_done,         \* the nodes of the current superstep that have returned
  n_writes,       \* their updates, not merged yet
  n_count,        \* how often each node has been run
  n_completed,    \* the nodes that have returned at least once
  n_step,         \* run_graph's step: the outputs it has received
  n_status_text,  \* what run_graph's status_text shows
  state,          \* the graph's State
  generated,      \* the sub-theme list the LLM returned to generate_themes
  gathered,       \* the dicts the sub-theme searches returned, in order
  \* ---- one call of search_news_for_subtheme ----
  t_pc,           \* "idle" | "called" | "returned" | "raised"
  t_subtheme,     \* the sub-theme asked for
  t_outcome,      \* what the search API does
  t_result,       \* the dict returned
  \* ---- calls of merge_dicts ----
  m_pc,           \* "idle" | "called" | "returned" | "merging" | "merged"
  m_left,         \* the left argument of one call
  m_right,        \* the right argument of one call
  m_order,        \* the writing steps whose updates are still to be merged
  m_result        \* the dict returned, or results as merged so far

stockVars == <<s_status, s_node, s_next, s_steps, s_error, session_keys,
               current_agent, agent_trials, response, visits, onlyResearcher,
               s_run, s_logs, s_status_text, fresh>>

newsVars == <<n_status, n_error, n_failed, n_active, n_done, n_writes, n_count,
              n_completed, n_step, n_status_text, state, generated, gathered>>

toolVars == <<t_pc, t_subtheme, t_outcome, t_result>>

mergeVars == <<m_pc, m_left, m_right, m_order, m_result>>

vars == <<stockVars, newsVars, toolVars, mergeVars>>

NoAgent == "<none>"

EmptyDict == [x \in {} |-> 0]

NoWrites == [x \in {} |-> 0]

NoTheme == [theme |-> "", sub_themes |-> <<>>]

\* The State before any node has written: the seed fields of app.py's
\* run_graph({"keyword": keyword, "language": language})
SeedState ==
  [present            |-> {"keyword", "language"},
   article_titles     |-> 0,
   newsletter_theme   |-> NoTheme,
   sub_theme_articles |-> <<>>,
   results            |-> <<>>,
   messages           |-> <<>>]

NewsAt(status, active) ==
  /\ n_status = status
  /\ n_error = "none"
  /\ n_failed = "<none>"
  /\ n_active = active
  /\ n_done = {}
  /\ n_writes = NoWrites
  /\ n_count = [n \in Nodes |-> 0]
  /\ n_completed = {}
  /\ n_step = 0
  /\ n_status_text = ""
  /\ state = SeedState
  /\ generated = <<>>
  /\ gathered = <<>>

NoOutcome == [raises |-> FALSE, results |-> 0, images |-> 0]

ToolIdle ==
  /\ t_pc = "idle"
  /\ t_subtheme = 0
  /\ t_outcome = NoOutcome
  /\ t_result = <<>>
  /\ m_pc = "idle"
  /\ m_left = <<>>
  /\ m_right = <<>>
  /\ m_order = <<>>
  /\ m_result = <<>>

\* The session bookkeeping of a browser session in which no worker has run.
FreshSession ==
  [keys          |-> {},
   current_agent |-> NoAgent,
   agent_trials  |-> EmptyDict,
   next          |-> "supervisor"]

StockAt(status) ==
  /\ s_status = status
  /\ s_node = "supervisor"
  /\ s_next = "supervisor"
  /\ s_steps = 0
  /\ s_error = "none"
  /\ session_keys = {}
  /\ current_agent = NoAgent
  /\ agent_trials = EmptyDict
  /\ response = "<none>"
  /\ visits = <<>>
  /\ onlyResearcher = TRUE
  /\ s_run = 1
  /\ s_logs = <<>>
  /\ s_status_text = ""
  /\ fresh = FreshSession

\* app.py: the analyze button clears the session state and starts a run with
\* {"messages": [question], "next": "supervisor", "language": language}
InitStock == StockAt("running") /\ NewsAt("idle", {}) /\ ToolIdle

\* conditional_map with every worker key routed to the first member.
conditional_map_first(next) ==
  IF next = FINISH THEN END ELSE MEMBERS[1]

\* graph.py: conditional_map = {k: k for k in MEMBERS} plus FINISH -> END,
\* applied to the value of lambda x: x["next"]
conditional_map(next) ==
  IF next = FINISH THEN END
  ELSE IF next \in MemberSet THEN next
  ELSE "<no branch>"

\* app.py, run_graph: status_text after an output that holds a next field
status_text_for(next_agent) ==
  IF next_agent = FINISH THEN "analysis_completed" ELSE DisplayName(next_agent)

\* The supervisor node followed by the conditional edge lambda x: x["next"];
\* run_graph logs the output and shows the step.
supervisor_agent ==
  /\ s_status = "running"
  /\ s_node = "supervisor"
  /\ s_steps < RecursionLimit
  /\ \E d \in RouteValues :
       LET r == supervisor_route(session_keys, current_agent, agent_trials, d)
       IN  /\ response' = d
           /\ onlyResearcher' = (onlyResearcher /\ d = "Researcher")
           /\ s_next' = r
           /\ s_node' = conditional_map(r)
           /\ s_status' = IF conditional_map(r) = END THEN "finished"
                                                      ELSE s_status
           /\ s_status_text' = status_text_for(r)
           /\ fresh' = [fresh EXCEPT !.next =
                          supervisor_route(fresh.keys, fresh.current_agent,
                                           fresh.agent_trials, d)]
  /\ s_steps' = s_steps + 1
  /\ s_logs' = Append(s_logs, "supervisor")
  /\ UNCHANGED <<s_error, session_keys, current_agent, agent_trials, visits,
                 s_run>>
  /\ UNCHANGED <<newsVars, toolVars, mergeVars>>

\* The supervisor's structured-output call raises; run_graph's except branch
\* reports the failure.
supervisor_raises ==
  /\ s_status = "running"
  /\ s_node = "supervisor"
  /\ s_steps < RecursionLimit
  /\ s_status' = "failed"
  /\ s_error' = "upstream"
  /\ s_steps' = s_steps + 1
  /\ s_logs' = Append(s_logs, "Error")
  /\ s_status_text' = "analysis_failed"
  /\ UNCHANGED <<s_node, s_next, session_keys, current_agent, agent_trials,
                 response, visits, onlyResearcher, s_run, fresh>>
  /\ UNCHANGED <<newsVars, toolVars, mergeVars>>

\* with_status.wrapper: the session bookkeeping done before func runs.
with_status_trials(keys, cur, trials, display_name) ==
  LET base == IF "agent_trials" \in keys THEN trials ELSE EmptyDict
      same == "current_agent" \in keys /\ cur = display_name
  IN  [d \in DOMAIN base \cup {display_name} |->
         IF d = display_name
           THEN IF same THEN base[display_name] + 1 ELSE 1
           ELSE base[d]]

\* A worker node (researcher_agent, stock_analyzer_agent or
\* chart_generator_agent) wrapped by with_status, and the edge back to the
\* supervisor. `ok` is whether the react agent returns or raises.
worker_agent(ok) ==
  /\ s_status = "running"
  /\ s_node \in MemberSet
  /\ s_steps < RecursionLimit
  /\ LET display_name == DisplayName(s_node)
     IN  /\ agent_trials' = with_status_trials(session_keys, current_agent,
                                               agent_trials, display_name)
         /\ session_keys' = session_keys \cup {"current_agent", "agent_trials"}
         /\ current_agent' = display_name
         /\ fresh' = [fresh EXCEPT
                        !.agent_trials =
                           with_status_trials(fresh.keys, fresh.current_agent,
                                              fresh.agent_trials, display_name),
                        !.keys = fresh.keys \cup {"current_agent", "agent_trials"},
                        !.current_agent = display_name]
  /\ visits' = Append(visits, s_node)
  /\ s_steps' = s_steps + 1
  /\ IF ok
       THEN /\ s_node' = "supervisor"
            /\ s_logs' = Append(s_logs, s_node)
            /\ UNCHANGED <<s_status, s_error, s_status_text>>
       ELSE /\ s_status' = "failed"
            /\ s_error' = "upstream"
            /\ s_logs' = Append(s_logs, "Error")
            /\ s_status_text' = "analysis_failed"
            /\ UNCHANGED s_node
  /\ UNCHANGED <<s_next, response, onlyResearcher, s_run>>
  /\ UNCHANGED <<newsVars, toolVars, mergeVars>>

\* The executor gives up when the run has not reached END within the limit;
\* run_graph's except branch reports the failure.
recursion_error ==
  /\ s_status = "running"
  /\ s_steps >= RecursionLimit
  /\ s_status' = "failed"
  /\ s_error' = "recursion"
  /\ s_logs' = Append(s_logs, "Error")
  /\ s_status_text' = "analysis_failed"
  /\ UNCHANGED <<s_node, s_next, s_steps, session_keys, current_agent,
                 agent_trials, response, visits, onlyResearcher, s_run, fresh>>
  /\ UNCHANGED <<newsVars, toolVars, mergeVars>>

\* Runs started in one browser session.
MaxRuns == 2

\* The analyze button with its loop over the session keys left out.
keep_session(keys) == keys

\* app.py: every session key except "language" is deleted
clear_session(keys) == keys \cap {"language"}

\* app.py: the analyze button, pressed once the run before it is over; it
\* clears the session state and starts a run with
\* {"messages": [question], "next": "supervisor", "language": language}
analyze_button ==
  /\ s_status \in {"finished", "failed"}
  /\ s_run < MaxRuns
  /\ LET keys == clear_session(session_keys)
     IN  /\ session_keys' = keys
         /\ current_agent' = IF "current_agent" \in keys THEN current_agent
                                                         ELSE NoAgent
         /\ agent_trials' = IF "agent_trials" \in keys THEN agent_trials
                                                       ELSE EmptyDict
  /\ s_run' = s_run + 1
  /\ s_status' = "running"
  /\ s_node' = "supervisor"
  /\ s_next' = "supervisor"
  /\ s_steps' = 0
  /\ s_error' = "none"
  /\ response' = "<none>"
  /\ visits' = <<>>
  /\ onlyResearcher' = TRUE
  /\ s_logs' = <<>>
  /\ s_status_text' = ""
  /\ fresh' = FreshSession
  /\ UNCHANGED <<newsVars, toolVars, mergeVars>>

NextStock ==
  \/ supervisor_agent
  \/ supervisor_raises
  \/ worker_agent(TRUE)
  \/ worker_agent(FALSE)
  \/ recursion_error
  \/ analyze_button

SpecStock == InitStock /\ [][NextStock]_vars

(***************************************************************************)
(* Newsletter pipeline: the run.                                           *)
(***************************************************************************)
\* Entries the LLM returns beyond the MaxSubThemes that are kept.
MaxExtra == 1

SeqMax(q) == IF q = <<>> THEN 0 ELSE CHOOSE m \in Range(q) : \A x \in Range(q) : x <= m

RECURSIVE ListsOfLen(_)
\* The sub-theme lists of length n.  Sub-theme strings are opaque to the
\* code, so a string is named by the rank of its first occurrence: each entry
\* repeats an earlier one or is the next new one.
ListsOfLen(n) ==
  IF n = 0 THEN {<<>>}
  ELSE UNION {{Append(q, x) : x \in 1..(SeqMax(q) + 1)} : q \in ListsOfLen(n - 1)}

\* e further sub-themes, none of them in q
Fresh(q, e) == [j \in 1..e |-> SeqMax(q) + j]

\* The lists the LLM returns: every list of up to MaxSubThemes entries, and
\* every list of MaxSubThemes entries followed by up to MaxExtra more.
GenLists ==
  UNION {ListsOfLen(n) : n \in 0..MaxSubThemes}
    \cup {q \o Fresh(q, e) : q \in ListsOfLen(MaxSubThemes), e \in 1..MaxExtra}

\* What a sub-theme search of the run does: it raises, or the response has
\* no result, or max_results results with their images
SearchOutcomes ==
  {[raises |-> TRUE, results |-> 0, images |-> 0]}
    \cup {[raises |-> FALSE, results |-> n, images |-> n] : n \in {0, max_results}}

TitleCounts == {0, max_titles}

InitNews == StockAt("idle") /\ NewsAt("running", Successors({START})) /\ ToolIdle

\* Runnable without the executor's record of the nodes that have returned
\* in the current superstep.
RunnableAgain(node) ==
  /\ n_status = "running"
  /\ node \in n_active

Runnable(node) ==
  /\ n_status = "running"
  /\ node \in n_active \ n_done

\* Complete with an executor that records a node's failure and goes on.
CompleteAndContinue(node, out) ==
  /\ n_count' = [n_count EXCEPT ![node] = @ + 1]
  /\ IF out.error # "none"
       THEN /\ n_error' = out.error
            /\ n_failed' = node
            /\ UNCHANGED <<n_status, n_status_text, n_active, n_done, n_writes,
                           n_completed, n_step, state>>
       ELSE LET done2   == n_done \cup {node}
                writes2 == [m \in done2 |-> IF m = node THEN out.update
                                                        ELSE n_writes[m]]
                next    == Successors(n_active)
            IN  /\ n_completed' = n_completed \cup {node}
                /\ n_step' = n_step + 1
                /\ n_status_text' = IF done2 = n_active /\ next = {}
                                      THEN "completed"
                                      ELSE "current_step"
                /\ UNCHANGED <<n_error, n_failed>>
                /\ IF done2 = n_active
                     THEN /\ state' = ApplyWrites(state, writes2, 1)
                          /\ n_active' = next
                          /\ n_done' = {}
                          /\ n_writes' = NoWrites
                          /\ n_status' = IF next = {} THEN "finished"
                                                      ELSE "running"
                     ELSE /\ n_done' = done2
                          /\ n_writes' = writes2
                          /\ UNCHANGED <<n_active, n_status, state>>

\* The executor's handling of a node that has returned or raised: a failure
\* ends the run and reaches run_graph's except branch; an update is handed to
\* run_graph's loop and kept until every node of the superstep has returned,
\* then all updates are merged and the successors are started.
Complete(node, out) ==
  /\ n_count' = [n_count EXCEPT ![node] = @ + 1]
  /\ IF out.error # "none"
       THEN /\ n_status' = "failed"
            /\ n_error' = out.error
            /\ n_failed' = node
            /\ n_status_text' = "failed"
            /\ UNCHANGED <<n_active, n_done, n_writes, n_completed, n_step,
                           state>>
       ELSE LET done2   == n_done \cup {node}
                writes2 == [m \in done2 |-> IF m = node THEN out.update
                                                        ELSE n_writes[m]]
                next    == Successors(n_active)
            IN  /\ n_completed' = n_completed \cup {node}
                /\ n_step' = n_step + 1
                /\ n_status_text' = IF done2 = n_active /\ next = {}
                                      THEN "completed"
                                      ELSE "current_step"
                /\ UNCHANGED <<n_error, n_failed>>
                /\ IF done2 = n_active
                     THEN /\ state' = ApplyWrites(state, writes2, 1)
                          /\ n_active' = next
                          /\ n_done' = {}
                          /\ n_writes' = NoWrites
                          /\ n_status' = IF next = {} THEN "finished"
                                                      ELSE "running"
                     ELSE /\ n_done' = done2
                          /\ n_writes' = writes2
                          /\ UNCHANGED <<n_active, n_status, state>>

search_news ==
  /\ Runnable("search_news")
  /\ \E ok \in BOOLEAN, n \in TitleCounts :
       Complete("search_news", search_keyword_news(state, ok, n))
  /\ UNCHANGED <<generated, gathered>>
  /\ UNCHANGED <<stockVars, toolVars, mergeVars>>

generate_themes_node ==
  /\ Runnable("generate_themes")
  /\ \E ok \in BOOLEAN, gen \in GenLists :
       /\ Complete("generate_themes", generate_themes(state, ok, gen))
       /\ generated' = IF ok THEN gen ELSE generated
  /\ UNCHANGED gathered
  /\ UNCHANGED <<stockVars, toolVars, mergeVars>>

search_sub_theme_articles_node ==
  /\ Runnable("search_sub_theme_articles")
  /\ \E outcomes \in [1..Len(state.newsletter_theme.sub_themes) -> SearchOutcomes] :
       /\ Complete("search_sub_theme_articles",
                   search_sub_theme_articles(state, outcomes))
       /\ gathered' = Gather(state.newsletter_theme.sub_themes, outcomes)
  /\ UNCHANGED generated
  /\ UNCHANGED <<stockVars, toolVars, mergeVars>>

write_section_node(i) ==
  /\ Runnable(write_node(i))
  /\ \E ok \in BOOLEAN : Complete(write_node(i), write_section(state, i, ok))
  /\ UNCHANGED <<generated, gathered>>
  /\ UNCHANGED <<stockVars, toolVars, mergeVars>>

aggregate ==
  /\ Runnable("aggregate")
  /\ Complete("aggregate", aggregate_results(state))
  /\ UNCHANGED <<generated, gathered>>
  /\ UNCHANGED <<stockVars, toolVars, mergeVars>>

edit_newsletter_node ==
  /\ Runnable("edit_newsletter")
  /\ \E ok \in BOOLEAN : Complete("edit_newsletter", edit_newsletter(state, ok))
  /\ UNCHANGED <<generated, gathered>>
  /\ UNCHANGED <<stockVars, toolVars, mergeVars>>

NextNews ==
  \/ search_news
  \/ generate_themes_node
  \/ search_sub_theme_articles_node
  \/ \E i \in SectionIds : write_section_node(i)
  \/ aggregate
  \/ edit_newsletter_node

SpecNews == InitNews /\ [][NextNews]_vars

(***************************************************************************)
(* Both pipelines: a behaviour is a session of the stock application or a  *)
(* run of the newsletter application.                                      *)
(***************************************************************************)
InitPipelines == InitStock \/ InitNews

NextPipelines == NextStock \/ NextNews

SpecPipelines == InitPipelines /\ [][NextPipelines]_vars

(***************************************************************************)
(* One call of search_news_for_subtheme, for every sub-theme and every      *)
(* behaviour of the search API.                                            *)
(***************************************************************************)
SubThemeIds == 1..(MaxSubThemes + MaxExtra)

\* The search raises, or answers with 0..max_results results and images.
ToolOutcomes ==
  {[raises |-> TRUE, results |-> 0, images |-> 0]}
    \cup {[raises |-> FALSE, results |-> n, images |-> m] :
            n \in 0..max_results, m \in 0..max_results}

InitSearch ==
  /\ StockAt("idle")
  /\ NewsAt("idle", {})
  /\ t_pc = "called"
  /\ t_subtheme \in SubThemeIds
  /\ t_outcome \in ToolOutcomes
  /\ t_result = <<>>
  /\ m_pc = "idle"
  /\ m_left = <<>>
  /\ m_right = <<>>
  /\ m_order = <<>>
  /\ m_result = <<>>

search_call ==
  /\ t_pc = "called"
  /\ LET result == search_news_for_subtheme(t_subtheme, t_outcome)
     IN  /\ t_result' = result
         /\ t_pc' = IF result = <<>> THEN "raised" ELSE "returned"
  /\ UNCHANGED <<t_subtheme, t_outcome>>
  /\ UNCHANGED <<stockVars, newsVars, mergeVars>>

NextSearch == search_call

SpecSearch == InitSearch /\ [][NextSearch]_vars

(***************************************************************************)
(* Calls of merge_dicts: one call on two dicts, and the updates of the     *)
(* writing steps merged into results one by one in every order.            *)
(***************************************************************************)
\* The keys a dict of a single call is built from.
MaxKeys == 2

DictValues == {1, 2}

\* The dicts whose keys are the distinct entries of the key list ks.
DictsOver(ks) ==
  {[i \in 1..Len(ks) |-> [k |-> ks[i], v |-> vs[i]]] :
     vs \in [1..Len(ks) -> DictValues]}

KeyLists ==
  UNION {{ks \in [1..n -> 1..MaxKeys] :
            \A i, j \in 1..n : i # j => ks[i] # ks[j]} : n \in 0..MaxKeys}

Dicts == UNION {DictsOver(ks) : ks \in KeyLists}

\* The orders in which the updates of the writing steps can be merged.
MergeOrders ==
  {p \in [1..NumSections -> SectionIds] :
     \A i, j \in 1..NumSections : i # j => p[i] # p[j]}

\* node.py: the update {sub_theme: text} of writing step i, the sub-themes
\* of the steps being pairwise different
section_update(i) == <<[k |-> i + 1, v |-> i]>>

InitMerge ==
  /\ StockAt("idle")
  /\ NewsAt("idle", {})
  /\ t_pc = "idle"
  /\ t_subtheme = 0
  /\ t_outcome = NoOutcome
  /\ t_result = <<>>
  /\ m_result = <<>>
  /\ \/ /\ m_pc = "called"
        /\ m_left \in Dicts
        /\ m_right \in Dicts
        /\ m_order = <<>>
     \/ /\ m_pc = "merging"
        /\ m_left = <<>>
        /\ m_right = <<>>
        /\ m_order \in MergeOrders

\* One call merge_dicts(left, right).
merge_call ==
  /\ m_pc = "called"
  /\ m_result' = merge_dicts(m_left, m_right)
  /\ m_pc' = "returned"
  /\ UNCHANGED <<m_left, m_right, m_order>>
  /\ UNCHANGED <<stockVars, newsVars, toolVars>>

\* The executor merges the next update into results.
merge_update ==
  /\ m_pc = "merging"
  /\ m_result' = merge_dicts(m_result, section_update(Head(m_order)))
  /\ m_order' = Tail(m_order)
  /\ m_pc' = IF Tail(m_order) = <<>> THEN "merged" ELSE "merging"
  /\ UNCHANGED <<m_left, m_right>>
  /\ UNCHANGED <<stockVars, newsVars, toolVars>>

NextMerge == merge_call \/ merge_update

SpecMerge == InitMerge /\ [][NextMerge]_vars

(***************************************************************************)
(* Stock pipeline: properties.                                             *)
(***************************************************************************)
\* A step of the behaviour in which supervisor_agent returned a route.
SupervisorReturned ==
  /\ s_node = "supervisor"
  /\ s_status = "running"
  /\ s_steps' = s_steps + 1
  /\ s_status' # "failed"

\* C1: with max_trials = 1, when every LLM decision of the run asks for
\* Researcher, the workers run in the order Researcher, Stock_Analyzer,
\* Chart_Generator and the run finishes after exactly these three visits.
C1_RoutingCeiling ==
  onlyResearcher =>
    /\ IsPrefix(visits, MEMBERS)
    /\ (s_status = "finished" => visits = MEMBERS)

\* C2: whatever the LLM decides, the run reaches the terminal node; the
\* executor never has to cut an unbounded supervisor/worker cycle.
C2_BoundedRun == s_error # "recursion"

\* C3: a supervisor call made after every member has executed returns FINISH,
\* whatever the LLM asked for.
C3_AllVisitedForcesFinish ==
  [][(SupervisorReturned /\ MemberSet \subseteq Range(visits))
       => s_next' = FINISH]_vars

\* C4: when the supervisor returns FINISH, every member has executed at least
\* once in the run.
C4_FinishAfterAllMembers ==
  s_status = "finished" => MemberSet \subseteq Range(visits)

\* C5: at a supervisor call after the first, an LLM decision for a worker W
\* whose recorded trial count is >= max_trials is not routed to W; W's
\* successor in MEMBERS is chosen when W has one.
C5_CeilingAdvances ==
  [][(/\ SupervisorReturned
      /\ visits # <<>>
      /\ response' \in MemberSet
      /\ TrialsGet(agent_trials, DisplayName(response')) >= max_trials)
       => /\ s_next' # response'
          /\ (MemberIndex(response') < Len(MEMBERS)
                => s_next' = MEMBERS[MemberIndex(response') + 1])]_vars

(***************************************************************************)
(* Newsletter pipeline: properties.                                        *)
(***************************************************************************)
Started(node) == node \in n_active \/ n_count[node] > 0

SearchesRan == n_count["search_sub_theme_articles"] > 0

\* The article list a sub-theme search returned is not empty.
Found(result) == result[1].v # <<>>

AfterSearch == {"aggregate", "edit_newsletter"} \cup {write_node(i) : i \in SectionIds}

\* C6: aggregate never starts before all five write_section_i steps have
\* returned, whatever the order in which they return.
C6_JoinBarrier ==
  Started("aggregate") => \A i \in SectionIds : write_node(i) \in n_completed

C6_Witness ==
  /\ "aggregate" \in n_completed
  /\ \A i \in SectionIds : write_node(i) \in n_completed

\* C7: once the five writing steps have returned and their updates are
\* merged, results has exactly NumSections entries, one per writing step.
C7_DistinctSubkeys ==
  (/\ \A i \in SectionIds : write_node(i) \in n_completed
   /\ "results" \in state.present)
    => /\ Cardinality(DictKeys(state.results)) = NumSections
       /\ \A i \in SectionIds : \E j \in 1..Len(state.results) :
            state.results[j].v = i

\* C8: the stored sub-theme list is the generated list when that has at most
\* 5 entries, and its first 5 entries in their order otherwise.
C8_Truncation ==
  "newsletter_theme" \in state.present =>
    LET stored == state.newsletter_theme.sub_themes
    IN  IF Len(generated) > 5
          THEN /\ Len(stored) = 5
               /\ \A i \in 1..5 : stored[i] = generated[i]
          ELSE stored = generated

C8_Witness ==
  /\ "newsletter_theme" \in state.present
  /\ Len(generated) > 5
  /\ Len(state.newsletter_theme.sub_themes) = 5

\* C9: when every sub-theme search returns no article,
\* search_sub_theme_articles raises the no-articles failure and neither a
\* writing step nor aggregate nor edit_newsletter runs.
C9_EmptySearchEscalates ==
  (SearchesRan /\ \A i \in 1..Len(gathered) : ~Found(gathered[i]))
    => /\ n_status = "failed"
       /\ n_error = "no_articles"
       /\ n_failed = "search_sub_theme_articles"
       /\ \A node \in AfterSearch : ~Started(node)

C9_Witness ==
  /\ SearchesRan
  /\ Len(gathered) = MaxSubThemes
  /\ \A i \in 1..Len(gathered) : ~Found(gathered[i])
  /\ n_error = "no_articles"

\* C10: when at least one sub-theme search returns articles,
\* search_sub_theme_articles does not raise and the run goes on through the
\* writing steps, aggregate and edit_newsletter: nothing but a failing
\* external call stops it, and at the end every writing step has returned.
C10_PartialSearchProceeds ==
  (SearchesRan /\ \E i \in 1..Len(gathered) : Found(gathered[i]))
    => /\ n_failed # "search_sub_theme_articles"
       /\ (n_status = "failed" => n_error = "upstream")
       /\ (n_status = "finished" => AfterSearch \subseteq n_completed)

\* C11: search_news_for_subtheme never raises; it returns a dict with exactly
\* one key, the sub-theme asked for, whose value is the empty list when the
\* search raised or had no result and the list of its results otherwise.
C11_SearchNeverRaises ==
  /\ t_pc # "raised"
  /\ t_pc = "returned" =>
       /\ Len(t_result) = 1
       /\ DictKeys(t_result) = {t_subtheme}
       /\ (t_outcome.raises \/ t_outcome.results = 0) => t_result[1].v = <<>>
       /\ ~t_outcome.raises => Len(t_result[1].v) = t_outcome.results

C11_Witness ==
  /\ t_pc = "returned"
  /\ t_outcome.raises
  /\ t_result[1].v = <<>>

Predecessors(node) == {e[1] : e \in {x \in Edges : x[2] = node}} \ {START}

\* C12: a run of the newsletter graph in which no step fails executes each
\* of the 10 declared steps exactly once, and a step is started only after
\* all its declared predecessors have returned.
C12_EachStepOnce ==
  /\ \A node \in Nodes :
       /\ n_count[node] <= 1
       /\ Started(node) => Predecessors(node) \subseteq n_completed
  /\ n_status = "finished" =>
       /\ Cardinality(Nodes) = 10
       /\ \A node \in Nodes : n_count[node] = 1

C12_Witness ==
  /\ n_status = "finished"
  /\ \A node \in Nodes : n_count[node] = 1

StockFailed == s_error # "none"

NewsFailed == n_error # "none"

\* C13: in both pipelines a step that raises stops the run: the failure
\* reaches run_graph's except branch, the outputs and state updates handed
\* out before it stay as they were, the failed step is not run again and no
\* other step runs afterwards (in the stock application until the next run
\* is started).
C13_FailureStopsRun ==
  [][/\ (~NewsFailed /\ NewsFailed') =>
          /\ n_status' = "failed"
          /\ n_status_text' = "failed"
          /\ n_count'[n_failed'] = 1
          /\ n_step' = n_step
          /\ state' = state
     /\ NewsFailed => UNCHANGED newsVars
     /\ (~StockFailed /\ StockFailed') =>
          /\ s_status' = "failed"
          /\ s_status_text' = "analysis_failed"
          /\ s_logs' = Append(s_logs, "Error")
          /\ s_next' = s_next
     /\ (StockFailed /\ s_run' = s_run) => UNCHANGED stockVars]_vars

C13_Witness ==
  /\ n_status = "failed"
  /\ n_failed \in Range(WriteNodes)
  /\ n_done # {}
  /\ n_step > 0
  /\ n_status_text = "failed"

\* A step of the behaviour in which a worker node ran.
WorkerRan ==
  /\ s_node \in MemberSet
  /\ s_status = "running"
  /\ s_steps' = s_steps + 1

\* C14: the value the supervisor writes to next is a member or FINISH; the
\* run ends at a supervisor step exactly when next is FINISH, otherwise the
\* step executed next is the worker named by next; after every worker step
\* that returns, the step executed next is the supervisor.
C14_RoutingFollowsNext ==
  [][/\ SupervisorReturned =>
          /\ s_next' \in RouteValues
          /\ (s_status' = "finished") <=> (s_next' = FINISH)
          /\ s_next' # FINISH => (s_status' = "running" /\ s_node' = s_next')
     /\ WorkerRan =>
          /\ visits' = Append(visits, s_next)
          /\ s_status' # "failed" => (s_status' = "running" /\ s_node' = "supervisor")
     /\ (s_status' = "finished" /\ s_status # "finished") => SupervisorReturned]_vars

C14_Witness ==
  /\ s_status = "finished"
  /\ s_next = FINISH
  /\ visits = MEMBERS

\* A run has been started and no node of it has run yet.
RunStarts == s_status = "running" /\ s_steps = 0

\* C15: the routing bookkeeping does not persist across runs: every run
\* starts with current_agent and agent_trials absent from the session state,
\* and each route of a run is the route that the same LLM decisions produce
\* in a browser session of their own, whatever the run before it left.
C15_RunsIndependent ==
  /\ RunStarts => session_keys \cap {"current_agent", "agent_trials"} = {}
  /\ s_next = fresh.next

C15_Witness ==
  /\ s_run = 2
  /\ s_status = "finished"
  /\ "current_agent" \in session_keys
  /\ s_next = fresh.next

\* C16: no step of the newsletter graph reads a state field, a list entry
\* or a dict key that has not been produced: no run fails with a KeyError or
\* an IndexError, for every stored sub-theme list of 1 to 5 entries.
C16_ReadsAfterProduced == n_error \notin {"key_error", "index_error"}

\* The draft: the message aggregate_results appended to messages.
Draft == state.messages[1]

\* C17: the draft of aggregate_results is the theme heading followed by one
\* section per entry of results, in order, each with the entry's sub-theme
\* key as heading and its text as body; five writing steps over five
\* different sub-themes give five sections; and the draft is the last
\* message when edit_newsletter runs, so the text it edits is the draft.
C17_DraftFromResults ==
  "aggregate" \in n_completed /\ "messages" \in state.present =>
    /\ Draft.kind = "draft"
    /\ Draft.theme = state.newsletter_theme.theme
    /\ Len(Draft.sections) = Len(state.results)
    /\ \A j \in 1..Len(state.results) :
         /\ Draft.sections[j].level = 2
         /\ Draft.sections[j].title = state.results[j].k
         /\ Draft.sections[j].body = state.results[j].v
    /\ Cardinality(Range(state.newsletter_theme.sub_themes)) = NumSections
         => Len(Draft.sections) = NumSections
    /\ n_count["edit_newsletter"] = 0 => state.messages = <<Draft>>
    /\ Len(state.messages) > 1 =>
         /\ state.messages[Len(state.messages)].kind = "final"
         /\ state.messages[Len(state.messages)].sections = Draft.sections

C17_Witness ==
  /\ n_status = "finished"
  /\ Len(state.messages) = 2
  /\ Len(Draft.sections) = NumSections

\* C18: the first supervisor call of a run finds no current_agent in the
\* session state and routes to MEMBERS[0] = Researcher whatever the LLM
\* decision is, FINISH included; no run finishes without a worker visit.
C18_FirstRouteIsResearcher ==
  [][/\ (SupervisorReturned /\ visits = <<>>) =>
          "current_agent" \notin session_keys
     /\ (SupervisorReturned /\ "current_agent" \notin session_keys) =>
          /\ s_next' = MEMBERS[1]
          /\ s_status' = "running"
     /\ s_status' = "finished" => visits' # <<>>]_vars

C18_Witness ==
  /\ s_steps = 1
  /\ response = FINISH
  /\ s_next = "Researcher"
  /\ s_status = "running"

\* C19: in every reachable state the trial counter of each worker is at
\* most max_trials: the supervisor never routes to a worker whose counter
\* has reached the ceiling.
C19_TrialsWithinCeiling ==
  \A d \in DOMAIN agent_trials : agent_trials[d] <= max_trials

LastMember == MEMBERS[Len(MEMBERS)]

\* The worker executed most recently in this run.
LastVisited == visits[Len(visits)]

\* C20: the supervisor returns FINISH only when the worker executed most
\* recently is the last member; when the LLM asks for FINISH, or asks for
\* the last member at its trial ceiling, while the worker executed most
\* recently is not the last member, the route is the member after it.
C20_FinishOnlyAfterLastMember ==
  [][SupervisorReturned =>
       /\ s_next' = FINISH => (visits # <<>> /\ LastVisited = LastMember)
       /\ (/\ visits # <<>>
           /\ LastVisited # LastMember
           /\ \/ response' = FINISH
              \/ /\ response' = LastMember
                 /\ TrialsGet(agent_trials, DisplayName(LastMember)) >= max_trials)
            => s_next' = MEMBERS[MemberIndex(LastVisited) + 1]]_vars

C20_Witness ==
  /\ response = FINISH
  /\ visits = <<"Researcher">>
  /\ s_next = "Stock_Analyzer"

\* How often Researcher has executed in this run.
ResearcherVisits == Cardinality({i \in 1..Len(visits) : visits[i] = MEMBERS[1]})

\* C21: in every run and for every sequence of LLM decisions Researcher is
\* the first worker to execute and executes once: never a second time, and
\* exactly once in every run that finishes; no route the supervisor returns
\* after its first call of the run is Researcher.
C21_ResearcherOnceAndFirst ==
  [][/\ visits' # <<>> => visits'[1] = MEMBERS[1]
     /\ ResearcherVisits' <= 1
     /\ s_status' = "finished" => ResearcherVisits' = 1
     /\ (SupervisorReturned /\ s_steps > 0) => s_next' # MEMBERS[1]]_vars

C21_Witness ==
  /\ s_status = "finished"
  /\ ResearcherVisits = 1
  /\ Len(visits) > Len(MEMBERS)
  /\ ~onlyResearcher

\* C22: merge_dicts is a right-biased dict union: the keys of the result are
\* the keys of both sides, a key of the right side has the right value, any
\* other key keeps the left value, merging the same dict again changes
\* nothing, and updates with pairwise different keys merged in any order
\* give the same results mapping.
C22_RightBiasedUnion ==
  /\ m_pc = "returned" =>
       /\ DictKeys(m_result) = DictKeys(m_left) \cup DictKeys(m_right)
       /\ Len(m_result) = Cardinality(DictKeys(m_result))
       /\ \A key \in DictKeys(m_right) :
            DictGet(m_result, key) = DictGet(m_right, key)
       /\ \A key \in DictKeys(m_left) \ DictKeys(m_right) :
            DictGet(m_result, key) = DictGet(m_left, key)
       /\ merge_dicts(m_result, m_right) = m_result
       /\ merge_dicts(m_left, m_left) = m_left
  /\ m_pc = "merged" =>
       /\ Len(m_result) = NumSections
       /\ AsMapping(m_result) = [key \in {i + 1 : i \in SectionIds} |-> key - 1]

C22_Witness ==
  /\ m_pc = "returned"
  /\ \E key \in DictKeys(m_left) \cap DictKeys(m_right) :
       /\ DictGet(m_left, key) # DictGet(m_right, key)
       /\ DictGet(m_result, key) = DictGet(m_right, key)

====
